---- MODULE Spec2Model ----
(***************************************************************************)
(* TurboParallelParser (src/turbo_parser.py): the session pool, the round  *)
(* scheduler, the page tasks with their shared deduplication set, the      *)
(* sqlite store and the teardown (cleanup_all) reached from the finally    *)
(* block, the signal handler and the atexit hook.                          *)
(*                                                                         *)
(* Threads: the main thread (pc), one creation task per browser index      *)
(* (create), one page task per pool slot (ptask) and the daemon stats      *)
(* monitor.  Every step that reads or writes shared state is an action of  *)
(* its own, so the interleavings of the threads are the interleavings of   *)
(* the actions.  A "with self.stats_lock" block of a page task or of the   *)
(* main thread is one action that needs the lock free: its body waits for  *)
(* nothing.  The print_turbo_stats of the stats monitor holds the lock     *)
(* from one action to the next (stats_lock).                               *)
(***************************************************************************)
EXTENDS Integers, Sequences, FiniteSets, TLC

\* ---------------------------------------------------------------- bounds
MaxBrowsers == 2      \* largest total_browsers tried
MaxPages    == 3      \* largest end_page tried (start_page is 1)
MaxRows     == 2      \* most table rows a listing page shows
MaxSignals  == 1      \* SIGINT/SIGTERM deliveries in one run
MaxCalls    == 3      \* direct calls of the store and detail methods
MaxFaults   == 1      \* failures of the environment in one run: Chrome not
                      \* starting, sqlite errors, quit/kill/rmtree errors,
                      \* executor.submit raising

\* batch_size of init_browser_pool: 50 in the source (line 393), scaled down
\* with MaxBrowsers so that a pool takes more than one batch
batch_size == 1

Ids  == {"s1", "s2"}  \* supplier_id values the registry can show
NoId == "noid"        \* a row whose name cell has no /show_supplier/ link;
                      \* None as the supplier_id of log_failed_attempt

Browsers == 0 .. (MaxBrowsers - 1)
Slots    == 1 .. MaxBrowsers
Pages    == 1 .. MaxPages
\* (page_number, supplier_id) of a failed_attempts row; page 0 is None
AttemptKeys == (0 .. MaxPages) \X (Ids \cup {NoId})
\* the details argument of save_supplier: None (the default), or a dict
NoDetails == [given |-> FALSE, map |-> << >>]
\* what no direct call has returned yet
NoCall == [op |-> "none", sid |-> NoId, pn |-> NoId, page |-> 0,
           kind |-> "none", details |-> NoDetails, again |-> FALSE, had |-> {},
           failed |-> FALSE, raised |-> FALSE, value |-> << >>]

VARIABLES
  \* ---- TurboParallelParser fields
  total_browsers, start_page, end_page,
  processed_pages, found_suppliers, duplicates_found,
  failed_pages, failed_suppliers, processed_suppliers,
  browser_pool, temp_dirs, is_shutting_down,
  \* ---- the world outside the interpreter
  session,          \* browser index -> "none" | "live" | "quit" | "killed"
  dir,              \* browser index -> "none" | "exists" | "removed"
  suppliers,        \* rows of table suppliers
  supplier_details, \* rows of table supplier_details
  failed_attempts,  \* (page_number, supplier_id) -> number of rows of table
                    \* failed_attempts that carry the pair
  now,              \* logical clock behind datetime.now()
  faults,           \* failures of the environment so far
  \* ---- threads
  pc,               \* main thread
  create,           \* browser index -> state of its creation task
  ptask,            \* pool slot -> state of its page task
  batch_num,        \* init_browser_pool: index of the batch being created
  collected,        \* futures the running as_completed loop has yielded
  current_page_index, pages_for_round, round_number,
  submitted,        \* parallel_round: slots whose task has been submitted
  cur_suppliers,    \* parallel_round: the list future.result() returned
  save_idx,         \* parallel_round: position of the save loop in it
  cl_idx,           \* position of the teardown loop that is running
  ca_caller,        \* who called the cleanup_all that is running
  sig_pc,           \* where the main thread was when the signal arrived
  exc_pending,      \* what is unwinding the main thread
  signals,          \* signals delivered so far
  monitor_started,  \* the stats_monitor thread has been started
  stats_lock,       \* self.stats_lock: "free", or "monitor" while the stats
                    \* monitor is inside print_turbo_stats
  api_ret,          \* the last direct call of a store or detail method and
                    \* what it gave back to its caller
  \* ---- history (observers only; no guard reads them)
  h

\* groups used by UNCHANGED
params   == << total_browsers, start_page, end_page >>
stats    == << processed_pages, found_suppliers, duplicates_found,
              failed_pages >>
fields   == << processed_suppliers, browser_pool, temp_dirs,
              is_shutting_down >>
world    == << session, dir >>
store    == << suppliers, failed_attempts, now >>
\* what only save_supplier with details, get_supplier_details and direct
\* calls write; run_turbo_parsing reaches none of them
apiv     == << supplier_details, failed_suppliers, api_ret >>
initv    == << batch_num, collected >>
roundv   == << current_page_index, pages_for_round, round_number,
              submitted, cur_suppliers, save_idx >>
exitv    == << ca_caller, sig_pc, exc_pending >>
\* everything only the main thread writes, except the program counter
mainv    == << initv, roundv, cl_idx, exitv, signals, monitor_started >>

vars == << params, stats_lock, apiv, stats, fields, world, store, faults, pc, create, ptask,
           mainv, h >>

Min(a, b) == IF a < b THEN a ELSE b
\* the elements of a list
Range(seq) == { seq[n] : n \in 1 .. Len(seq) }

\* ------------------------------------------------------------ construction
IdleTask == [pc |-> "idle", page |-> 0, browser |-> 0, nrows |-> 0,
             cur |-> NoId, suppliers |-> << >>]

InitHistory ==
  [ attempts      |-> [i \in Browsers |-> 0],  \* create_stealth_browser calls
    pooled        |-> {},                      \* sessions ever put in the pool
    quits         |-> [i \in Browsers |-> 0],  \* browser.quit() calls
    rm_tried      |-> {},                      \* directories given to rmtree
    cleanup_calls |-> 0,                       \* cleanup_all calls
    body_runs     |-> 0,                       \* cleanup_all calls past the guard
    kill_runs     |-> 0,                       \* kill_chrome_processes runs
    body_done     |-> FALSE,                   \* a cleanup_all body ran to its end
    init_pool     |-> -1,                      \* len(browser_pool) when init returned
    accepts       |-> [s \in Ids |-> 0],       \* suppliers.append per id
    saves         |-> [s \in Ids |-> 0],       \* save_supplier calls per id
    dispatched    |-> [p \in Pages |-> 0],     \* executor.submit per page
    stats_reported|-> FALSE,                   \* line 737 ran
    exit_path     |-> "none",                  \* how the try block was left
    init_sleeps   |-> 0,                       \* time.sleep(2) between batches
    id_rows       |-> 0,                       \* rows with a /show_supplier/ link
    cooldowns     |-> 0,                       \* time.sleep(break_time) calls
    last_details  |-> [s \in Ids |-> << >>] ]  \* dict of the last committed
                                               \* save with details, per id

Init ==
  /\ total_browsers \in 1 .. MaxBrowsers
  /\ start_page = 1
  /\ end_page \in 0 .. MaxPages
  /\ processed_pages = 0 /\ found_suppliers = 0 /\ duplicates_found = 0
  /\ failed_pages = {} /\ processed_suppliers = {}
  /\ browser_pool = << >> /\ temp_dirs = << >>
  /\ is_shutting_down = FALSE
  /\ session = [i \in Browsers |-> "none"]
  /\ dir = [i \in Browsers |-> "none"]
  /\ suppliers = {} /\ supplier_details = {}
  /\ failed_attempts = [a \in AttemptKeys |-> 0]
  /\ failed_suppliers = {} /\ api_ret = NoCall
  /\ now = 0 /\ faults = 0
  /\ pc = "ibp_for"
  /\ create = [i \in Browsers |-> "idle"]
  /\ ptask = [k \in Slots |-> IdleTask]
  /\ batch_num = 0 /\ collected = {}
  /\ current_page_index = 0 /\ pages_for_round = << >> /\ round_number = 1
  /\ submitted = {} /\ cur_suppliers = << >> /\ save_idx = 0 /\ cl_idx = 0
  /\ ca_caller = "none" /\ sig_pc = "none" /\ exc_pending = "none"
  /\ signals = 0 /\ monitor_started = FALSE
  /\ stats_lock = "free"
  /\ h = InitHistory

\* threading.Lock.acquire of "with self.stats_lock" returns (lines 484, 493,
\* 529, 620, 636)
LockFree_m == TRUE
LockFree == stats_lock = "free"

\* an environment failure is taken from the budget
Fault == /\ faults < MaxFaults
         /\ faults' = faults + 1

\* ----------------------------------------------- create_stealth_browser
\* tempfile.mkdtemp and self.temp_dirs.append (lines 277-278); mkdtemp is
\* outside the try block, so its failure makes the future raise.
CreateDir(i) ==
  /\ create[i] = "started"
  /\ h' = [h EXCEPT !.attempts[i] = @ + 1]
  /\ \/ /\ create' = [create EXCEPT ![i] = "dir"]
        /\ temp_dirs' = Append(temp_dirs, i)
        /\ dir' = [dir EXCEPT ![i] = "exists"]
        /\ UNCHANGED faults
     \/ /\ Fault
        /\ create' = [create EXCEPT ![i] = "raised"]
        /\ UNCHANGED << temp_dirs, dir >>
  /\ UNCHANGED << params, stats_lock, apiv, stats, processed_suppliers, browser_pool,
                  is_shutting_down, session, store, pc, ptask, mainv >>

\* webdriver.Chrome and driver.execute_script inside the try block (lines
\* 352-385): the driver is returned; or Chrome does not start and None is
\* returned; or Chrome starts and execute_script raises, so None is returned
\* while the started session stays alive, referenced by nobody.
CreateChrome(i) ==
  /\ create[i] = "dir"
  /\ \/ /\ session' = [session EXCEPT ![i] = "live"]
        /\ create' = [create EXCEPT ![i] = "ret_driver"]
        /\ UNCHANGED faults
     \/ /\ Fault
        /\ create' = [create EXCEPT ![i] = "ret_none"]
        /\ UNCHANGED session
     \/ /\ Fault
        /\ session' = [session EXCEPT ![i] = "live"]
        /\ create' = [create EXCEPT ![i] = "ret_none"]
  /\ UNCHANGED << params, stats_lock, apiv, stats, fields, dir, store, pc, ptask, mainv, h >>

\* ------------------------------------------------------ init_browser_pool
\* total_batches = (total_browsers + batch_size - 1) // batch_size
total_batches == (total_browsers + batch_size - 1) \div batch_size

\* range(start_idx, end_idx) of batch b (lines 400-401, 410)
BatchIds_m(b) == 0 .. (total_browsers - 1)
BatchIds(b) ==
  LET start_idx == b * batch_size
      end_idx   == Min(start_idx + batch_size, total_browsers)
  IN  start_idx .. (end_idx - 1)

\* the pool after the collector has seen the result of one future: a driver
\* is appended, None and a raised future are not (lines 418-427)
PoolAfter_m(pool, i, result) == Append(pool, i)
PoolAfter(pool, i, result) ==
  IF result = "ret_driver" THEN Append(pool, i) ELSE pool

\* for batch_num in range(total_batches): if is_shutting_down: break; submit
\* create_stealth_browser for every index of the batch (lines 396-412)
IbpBatch ==
  /\ pc = "ibp_for"
  /\ batch_num < total_batches
  /\ ~is_shutting_down
  /\ create' = [i \in Browsers |->
                  IF i \in BatchIds(batch_num) THEN "started" ELSE create[i]]
  /\ collected' = {}
  /\ pc' = "ibp_collect"
  /\ UNCHANGED << params, stats_lock, apiv, stats, fields, world, store, faults, ptask,
                  batch_num, roundv, cl_idx, exitv, signals, monitor_started,
                  h >>

\* one iteration of "for future in as_completed(future_to_id)" (416-427)
IbpCollect(i) ==
  /\ pc = "ibp_collect"
  /\ i \in BatchIds(batch_num) \ collected
  /\ create[i] \in {"ret_driver", "ret_none", "raised"}
  /\ browser_pool' = PoolAfter(browser_pool, i, create[i])
  /\ collected' = collected \cup {i}
  /\ h' = [h EXCEPT !.pooled = { browser_pool'[n] : n \in 1 .. Len(browser_pool') }]
  /\ UNCHANGED << params, stats_lock, apiv, stats, processed_suppliers, temp_dirs,
                  is_shutting_down, world, store, faults, pc, create, ptask,
                  batch_num, roundv, cl_idx, exitv, signals, monitor_started >>

\* the with block of the batch ends (all futures yielded, executor joined);
\* time.sleep(2) follows unless this was the last batch (lines 429-434)
IbpBatchEnd ==
  /\ pc = "ibp_collect"
  /\ collected = BatchIds(batch_num)
  /\ pc' = IF batch_num < total_batches - 1 THEN "ibp_sleep" ELSE "ibp_for"
  /\ batch_num' = batch_num + 1
  /\ UNCHANGED << params, stats_lock, apiv, stats, fields, world, store, faults, create, ptask,
                  collected, roundv, cl_idx, exitv, signals, monitor_started,
                  h >>

\* time.sleep(2) has passed (line 434)
IbpSleep ==
  /\ pc = "ibp_sleep"
  /\ pc' = "ibp_for"
  /\ h' = [h EXCEPT !.init_sleeps = @ + 1]
  /\ UNCHANGED << params, stats_lock, apiv, stats, fields, world, store, faults, create,
                  ptask, mainv >>

\* the for loop is exhausted (or broken out of): init_browser_pool returns
IbpReturn ==
  /\ pc = "ibp_for"
  /\ batch_num >= total_batches \/ is_shutting_down
  /\ pc' = "rtp_check"
  /\ h' = [h EXCEPT !.init_pool = Len(browser_pool)]
  /\ UNCHANGED << params, stats_lock, apiv, stats, fields, world, store, faults, create, ptask,
                  mainv >>

\* ------------------------------------------------------ run_turbo_parsing
\* all_pages = list(range(start_page, end_page + 1)) (line 693)
all_pages ==
  [n \in 1 .. (IF end_page >= start_page THEN end_page - start_page + 1 ELSE 0)
     |-> start_page + n - 1]

\* Python's seq[a:b] for 0 <= a <= b
Slice(seq, a, b) == SubSeq(seq, a + 1, Min(b, Len(seq)))

\* all_pages[current_page_index:current_page_index + len(self.browser_pool)]
PagesForRound_m(pages, idx, pool) == Slice(pages, idx, idx + 1)
PagesForRound(pages, idx, pool) == Slice(pages, idx, idx + Len(pool))

\* pages[:len(self.browser_pool)] of parallel_round (line 604)
RoundBatch_m(pages, pool) == Slice(pages, 0, 1)
RoundBatch(pages, pool) == Slice(pages, 0, Len(pool))

\* browser = self.browser_pool[i] (line 605); lists count from 1 here
BrowserFor_m(k) == browser_pool[1]
BrowserFor(k) == browser_pool[k]

\* current_page_index += len(pages_for_round) (line 708)
CursorAfter_m(idx, cut) == idx + 1
CursorAfter(idx, cut) == idx + Len(cut)

\* "if not self.browser_pool" (line 688)
PoolExhausted_m == FALSE
PoolExhausted == Len(browser_pool) = 0

\* lines 688-701: return when the pool is empty (the finally block still
\* runs), else start the stats monitor thread and set up the loop
RtpCheck ==
  /\ pc = "rtp_check"
  /\ IF PoolExhausted
       THEN /\ exc_pending' = "Return"
            /\ pc' = "finally"
            /\ h' = [h EXCEPT !.exit_path = "return"]
            /\ UNCHANGED << monitor_started, current_page_index,
                            round_number >>
       ELSE /\ monitor_started' = TRUE
            /\ current_page_index' = 0
            /\ round_number' = 1
            /\ pc' = "rtp_while"
            /\ UNCHANGED << exc_pending, h >>
  /\ UNCHANGED << params, stats_lock, apiv, stats, fields, world, store, faults, create, ptask,
                  initv, pages_for_round, submitted, cur_suppliers, save_idx,
                  cl_idx, ca_caller, sig_pc, signals >>

\* the while test and lines 707-710: cut the round's pages and advance the
\* cursor; pages_for_round[0] of the print raises IndexError on an empty cut,
\* which "except Exception" catches
RtpWhile ==
  /\ pc = "rtp_while"
  /\ IF current_page_index < Len(all_pages) /\ ~is_shutting_down
       THEN LET cut == PagesForRound(all_pages, current_page_index,
                                     browser_pool)
            IN  /\ pages_for_round' = cut
                /\ current_page_index' = CursorAfter(current_page_index, cut)
                /\ submitted' = {}
                /\ collected' = {}
                /\ pc' = IF Len(cut) = 0 THEN "finally" ELSE "pr_submit"
                /\ h' = [h EXCEPT !.exit_path = IF Len(cut) = 0
                                                  THEN "exception" ELSE @]
       ELSE /\ pc' = "finally"
            /\ h' = [h EXCEPT !.exit_path = "normal"]
            /\ UNCHANGED << pages_for_round, current_page_index, submitted,
                            collected >>
  /\ UNCHANGED << params, stats_lock, apiv, stats, fields, world, store, faults, create, ptask,
                  batch_num, round_number, cur_suppliers, save_idx, cl_idx,
                  exitv, signals, monitor_started >>

\* --------------------------------------------------------- parallel_round
\* one iteration of the submit loop (lines 604-607): page i of the batch
\* goes to browser_pool[i]
PrSubmit ==
  /\ pc = "pr_submit"
  /\ LET k     == Cardinality(submitted) + 1
         batch == RoundBatch(pages_for_round, browser_pool)
     IN  /\ k <= Len(batch)
         /\ ptask' = [ptask EXCEPT ![k] =
                        [IdleTask EXCEPT !.pc = "get", !.page = batch[k],
                                         !.browser = BrowserFor(k)]]
         /\ submitted' = submitted \cup {k}
         /\ h' = [h EXCEPT !.dispatched[batch[k]] = @ + 1]
         /\ pc' = IF k = Len(batch) THEN "pr_collect" ELSE "pr_submit"
  /\ UNCHANGED << params, stats_lock, apiv, stats, fields, world, store, faults, create, initv,
                  current_page_index, pages_for_round, round_number,
                  cur_suppliers, save_idx, cl_idx, exitv, signals,
                  monitor_started >>

\* executor.submit raises (RuntimeError: can't start new thread): the
\* exception leaves the with block, whose exit joins the tasks already
\* submitted, and is caught by "except Exception" of run_turbo_parsing
PrSubmitRaise ==
  /\ pc = "pr_submit"
  /\ Fault
  /\ exc_pending' = "Exception"
  /\ pc' = "exit_join"
  /\ UNCHANGED << params, stats_lock, apiv, stats, fields, world, store, create, ptask, initv,
                  roundv, cl_idx, ca_caller, sig_pc, signals, monitor_started,
                  h >>

\* INSERT OR REPLACE INTO suppliers: rows that collide with the new one on a
\* UNIQUE column (participant_number, supplier_id) are deleted, then the new
\* row is inserted (lines 227-243, 557-571)
InsertOrReplace_m(table, row) == table \cup {row}
InsertOrReplace(table, row) ==
  { r \in table : /\ r.participant_number # row.participant_number
                  /\ r.supplier_id # row.supplier_id } \cup {row}

\* the listing shows every supplier under a participant number of its own
ParticipantNumber(sid) == sid

\* the row save_supplier writes (lines 561-571): the payload's fields,
\* is_parsed = "details is not None", updated_at = datetime.now()
SupplierRow(pn, sid, det, t) ==
  [participant_number |-> pn, supplier_id |-> sid, is_parsed |-> det.given,
   updated_at |-> t]

\* one iteration of "for future in as_completed(future_to_page)" up to
\* future.result() (lines 610-614); a raised future goes to the except
\* branch of line 626
PrCollect(k) ==
  /\ pc = "pr_collect"
  /\ k \in submitted \ collected
  /\ ptask[k].pc \in {"returned", "raised"}
  /\ collected' = collected \cup {k}
  /\ ptask' = [ptask EXCEPT ![k] = IdleTask]
  /\ IF ptask[k].pc = "raised"
       THEN UNCHANGED << cur_suppliers, save_idx, pc >>
       ELSE /\ cur_suppliers' = ptask[k].suppliers
            /\ save_idx' = 1
            /\ pc' = IF Len(ptask[k].suppliers) = 0 THEN "pr_count"
                     ELSE "pr_save"
  /\ UNCHANGED << params, stats_lock, apiv, stats, fields, world, store, faults, create,
                  batch_num, current_page_index, pages_for_round,
                  round_number, submitted, cl_idx, exitv, signals,
                  monitor_started, h >>

\* self.save_supplier(supplier) of line 618.  sqlite3.connect is outside the
\* try block of save_supplier, so its failure raises into the collector and
\* ends this future's iteration at line 626; a failure of execute or commit
\* is caught inside save_supplier and nothing is committed.
PrSave ==
  /\ pc = "pr_save"
  /\ LET sid  == cur_suppliers[save_idx]
         row  == SupplierRow(ParticipantNumber(sid), sid, NoDetails, now + 1)
         next == IF save_idx = Len(cur_suppliers) THEN "pr_count"
                 ELSE "pr_save"
     IN  /\ h' = [h EXCEPT !.saves[sid] = @ + 1]
         /\ \/ /\ suppliers' = InsertOrReplace(suppliers, row)
               /\ now' = now + 1
               /\ save_idx' = save_idx + 1
               /\ pc' = next
               /\ UNCHANGED << cur_suppliers, faults >>
            \/ /\ Fault
               /\ now' = now + 1
               /\ save_idx' = save_idx + 1
               /\ pc' = next
               /\ UNCHANGED << suppliers, cur_suppliers >>
            \/ /\ Fault
               /\ pc' = "pr_collect"
               /\ cur_suppliers' = << >>
               /\ save_idx' = 0
               /\ UNCHANGED << suppliers, now >>
  /\ UNCHANGED << params, stats_lock, apiv, stats, fields, world, failed_attempts, create,
                  ptask, initv, current_page_index, pages_for_round,
                  round_number, submitted, cl_idx, exitv, signals,
                  monitor_started >>

\* self.found_suppliers += len(suppliers) (line 622)
FoundAfter_m(found, list) == found + 1
FoundAfter(found, list) == found + Len(list)

\* with self.stats_lock: processed_pages += 1; found_suppliers += len(...)
\* (lines 620-622)
PrCount ==
  /\ pc = "pr_count"
  /\ LockFree
  /\ processed_pages' = processed_pages + 1
  /\ found_suppliers' = FoundAfter(found_suppliers, cur_suppliers)
  /\ cur_suppliers' = << >>
  /\ save_idx' = 0
  /\ pc' = "pr_collect"
  /\ UNCHANGED << params, stats_lock, apiv, duplicates_found, failed_pages, fields, world,
                  store, faults, create, ptask, initv, current_page_index,
                  pages_for_round, round_number, submitted, cl_idx, exitv,
                  signals, monitor_started, h >>

\* as_completed has yielded every future of future_to_page (line 610) and
\* the exit of the with block has joined the worker threads
AllResolved_m == TRUE
AllResolved == collected = submitted

\* "if current_page_index < len(all_pages) and not self.is_shutting_down"
\* (line 719)
CooldownDue_m == TRUE
CooldownDue == current_page_index < Len(all_pages) /\ ~is_shutting_down

\* every future has been yielded and the with block has joined its threads:
\* parallel_round returns; lines 715-723 sleep break_time when pages remain
PrRoundEnd ==
  /\ pc = "pr_collect"
  /\ AllResolved
  /\ round_number' = round_number + 1
  /\ submitted' = {}
  /\ collected' = {}
  /\ pc' = IF CooldownDue THEN "rtp_sleep" ELSE "rtp_while"
  /\ UNCHANGED << params, stats_lock, apiv, stats, fields, world, store, faults, create, ptask,
                  batch_num, current_page_index, pages_for_round,
                  cur_suppliers, save_idx, cl_idx, exitv, signals,
                  monitor_started, h >>

\* time.sleep(self.break_time) has passed (line 721)
RtpSleep ==
  /\ pc = "rtp_sleep"
  /\ pc' = "rtp_while"
  /\ h' = [h EXCEPT !.cooldowns = @ + 1]
  /\ UNCHANGED << params, stats_lock, apiv, stats, fields, world, store, faults, create,
                  ptask, mainv >>

\* ---------------------------------------------------- process_single_page
TaskUpd(k, f) == [ptask EXCEPT ![k] = f]

\* browser.get, the WebDriverWait of 15 s, page_source and BeautifulSoup
\* (lines 442-456): the table is there, or any of them raises (always, once
\* the session has been quit or killed)
TaskGet(k) ==
  /\ ptask[k].pc = "get"
  /\ \/ /\ session[ptask[k].browser] = "live"
        /\ ptask' = TaskUpd(k, [ptask[k] EXCEPT !.pc = "rows"])
     \/ ptask' = TaskUpd(k, [ptask[k] EXCEPT !.pc = "fail"])
  /\ UNCHANGED << params, stats_lock, apiv, stats, fields, world, store, faults, pc, create,
                  mainv, h >>

\* what a row leads to (lines 473-485): without a link that holds
\* /show_supplier/ the loop goes on to the next row; else the membership test
\* of line 479 decides between the accept and the duplicate branch
RowPc_m(r) == IF r \in processed_suppliers THEN "dup" ELSE "add"
RowPc(r) ==
  IF r = NoId THEN "rows"
  ELSE IF r \in processed_suppliers THEN "dup" ELSE "add"

\* the next table row (lines 461-479): a row without a resolvable identifier
\* is passed over; for a row with one, "supplier_id not in
\* self.processed_suppliers" is evaluated, without the lock; after the last
\* row the task returns its list; an error inside the loop goes to the
\* except branch, which drops the list
TaskRow(k) ==
  /\ ptask[k].pc = "rows"
  /\ \/ /\ ptask' = TaskUpd(k, [ptask[k] EXCEPT !.pc = "returned",
                                                 !.nrows = 0])
        /\ UNCHANGED h
     \/ /\ ptask[k].nrows < MaxRows
        /\ \E r \in Ids \cup {NoId} :
             /\ ptask' = TaskUpd(k,
                  [ptask[k] EXCEPT
                     !.nrows = @ + 1,
                     !.cur = r,
                     !.pc = RowPc(r)])
             /\ h' = [h EXCEPT !.id_rows = IF r = NoId THEN @ ELSE @ + 1]
     \/ /\ ptask' = TaskUpd(k, [ptask[k] EXCEPT !.pc = "fail", !.nrows = 0,
                                                !.suppliers = << >>])
        /\ UNCHANGED h
  /\ UNCHANGED << params, stats_lock, apiv, stats, fields, world, store,
                  faults, pc, create, mainv >>

\* self.processed_suppliers.add(supplier['supplier_id']) (line 480)
SeenAfterAdd_m(seen, sid) == {sid}
SeenAfterAdd(seen, sid) == seen \cup {sid}

\* self.processed_suppliers.add(...); suppliers.append(supplier) (480-481)
TaskAdd(k) ==
  /\ ptask[k].pc = "add"
  /\ processed_suppliers' = SeenAfterAdd(processed_suppliers, ptask[k].cur)
  /\ ptask' = TaskUpd(k, [ptask[k] EXCEPT
                            !.pc = "rows", !.cur = NoId,
                            !.suppliers = Append(@, ptask[k].cur)])
  /\ h' = [h EXCEPT !.accepts[ptask[k].cur] = @ + 1]
  /\ UNCHANGED << params, stats_lock, apiv, stats, browser_pool, temp_dirs, is_shutting_down,
                  world, store, faults, pc, create, mainv >>

\* with self.stats_lock: self.duplicates_found += 1 (lines 484-485)
TaskDup(k) ==
  /\ ptask[k].pc = "dup"
  /\ LockFree
  /\ duplicates_found' = duplicates_found + 1
  /\ ptask' = TaskUpd(k, [ptask[k] EXCEPT !.pc = "rows", !.cur = NoId])
  /\ UNCHANGED << params, stats_lock, apiv, processed_pages, found_suppliers, failed_pages,
                  fields, world, store, faults, pc, create, mainv, h >>

\* except Exception: with self.stats_lock: self.failed_pages.add(page)
\* (lines 491-494)
TaskFail(k) ==
  /\ ptask[k].pc = "fail"
  /\ LockFree
  /\ failed_pages' = failed_pages \cup {ptask[k].page}
  /\ ptask' = TaskUpd(k, [ptask[k] EXCEPT !.pc = "log"])
  /\ UNCHANGED << params, stats_lock, apiv, processed_pages, found_suppliers, duplicates_found,
                  fields, world, store, faults, pc, create, mainv, h >>

\* INSERT INTO failed_attempts (page_number, supplier_id, error_message)
\* (lines 540-544): one more row, whatever rows there are
LogInsert(table, page, sid) ==
  [table EXCEPT ![<< page, sid >>] = @ + 1]

\* self.log_failed_attempt(page, None, str(e)); return [] (lines 495-496).
\* log_failed_attempt (534-549): sqlite3.connect is outside its try block,
\* so a connect failure raises through process_single_page; a failure of the
\* INSERT or the commit is caught and no row is written.
TaskLog(k) ==
  /\ ptask[k].pc = "log"
  /\ \/ /\ failed_attempts' = LogInsert(failed_attempts, ptask[k].page, NoId)
        /\ ptask' = TaskUpd(k, [ptask[k] EXCEPT !.pc = "returned"])
        /\ UNCHANGED faults
     \/ /\ Fault
        /\ ptask' = TaskUpd(k, [ptask[k] EXCEPT !.pc = "returned"])
        /\ UNCHANGED failed_attempts
     \/ /\ Fault
        /\ ptask' = TaskUpd(k, [ptask[k] EXCEPT !.pc = "raised"])
        /\ UNCHANGED failed_attempts
  /\ UNCHANGED << params, stats_lock, apiv, stats, fields, world, suppliers, now, pc, create,
                  mainv, h >>

\* ------------------------------------------------------------ cleanup_all
\* main-thread positions inside a "with ThreadPoolExecutor" block, whose exit
\* joins the worker threads before an exception goes on
WithPcs == {"ibp_collect", "pr_submit", "pr_collect", "pr_save", "pr_count"}
\* the other positions inside the try block of run_turbo_parsing
TryPcs == {"ibp_for", "ibp_sleep", "rtp_check", "rtp_while", "rtp_sleep"}
\* positions inside the body of cleanup_all
CleanupPcs == {"cab", "kcp", "ctd", "ctd_clear"}

\* where SystemExit raised at position p takes the main thread: through the
\* executor's join, into the finally block, or out of run_turbo_parsing (no
\* handler of the file catches SystemExit) to the interpreter's exit
Unwind_m(p) == p
Unwind(p) ==
  IF p \in WithPcs THEN "exit_join"
  ELSE IF p \in TryPcs THEN "finally"
  ELSE "atexit"

\* "if self.is_shutting_down: return" (lines 123-124)
AlreadyShuttingDown_m == FALSE
AlreadyShuttingDown == is_shutting_down

\* where the caller of cleanup_all goes on when it returns: the finally
\* block (733-735) falls through to print_turbo_stats (line 737) unless a
\* return or SystemExit is pending; signal_handler calls sys.exit(0) (line
\* 119); the atexit hook ends the process
AfterCleanupPc_m(caller, at) ==
  CASE caller = "finally" -> "print_stats"
    [] caller = "atexit"  -> "exited"
    [] OTHER              -> Unwind(at)
AfterCleanupPc(caller, at) ==
  CASE caller = "finally" -> IF exc_pending \in {"SystemExit", "Return"}
                               THEN "atexit" ELSE "print_stats"
    [] caller = "atexit"  -> "exited"
    [] OTHER              -> Unwind(at)

AfterCleanupExc(caller) ==
  IF caller = "signal" THEN "SystemExit" ELSE exc_pending

\* a call of cleanup_all by caller, made at main-thread position at: return
\* at once when the flag is set, else set it and start close_all_browsers
CallCleanupAll(caller, at) ==
  IF AlreadyShuttingDown
    THEN /\ pc' = AfterCleanupPc(caller, at)
         /\ exc_pending' = AfterCleanupExc(caller)
         /\ h' = [h EXCEPT !.cleanup_calls = @ + 1,
                           !.exit_path = IF caller = "signal" THEN "signal"
                                         ELSE @]
         /\ UNCHANGED << is_shutting_down, ca_caller, sig_pc, cl_idx >>
    ELSE /\ is_shutting_down' = TRUE
         /\ ca_caller' = caller
         /\ sig_pc' = at
         /\ cl_idx' = 1
         /\ pc' = "cab"
         /\ h' = [h EXCEPT !.cleanup_calls = @ + 1, !.body_runs = @ + 1,
                           !.exit_path = IF caller = "signal" THEN "signal"
                                         ELSE @]
         /\ UNCHANGED exc_pending

\* finally: self.cleanup_all() (lines 733-735)
Finally ==
  /\ pc = "finally"
  /\ CallCleanupAll("finally", "finally")
  /\ UNCHANGED << params, stats_lock, apiv, stats, processed_suppliers, browser_pool, temp_dirs,
                  world, store, faults, create, ptask, initv, roundv, signals,
                  monitor_started >>

\* the for loop of close_all_browsers goes on to the next browser whether
\* quit() returned or raised (lines 149-154)
NextAfterQuit_m(i, ok) == IF ok THEN i + 1 ELSE Len(browser_pool) + 1
NextAfterQuit(i, ok) == i + 1

\* one browser.quit() of close_all_browsers
CabQuit ==
  /\ pc = "cab"
  /\ cl_idx <= Len(browser_pool)
  /\ LET b == browser_pool[cl_idx]
     IN  /\ h' = [h EXCEPT !.quits[b] = @ + 1]
         /\ \/ /\ session' = [session EXCEPT ![b] = "quit"]
               /\ cl_idx' = NextAfterQuit(cl_idx, TRUE)
               /\ UNCHANGED faults
            \/ /\ Fault
               /\ cl_idx' = NextAfterQuit(cl_idx, FALSE)
               /\ UNCHANGED session
  /\ UNCHANGED << params, stats_lock, apiv, stats, fields, dir, store, pc, create, ptask,
                  initv, roundv, exitv, signals, monitor_started >>

\* cleanup_all calls close_all_browsers, then kill_chrome_processes, then
\* cleanup_temp_dirs (lines 128-134): the phase that follows the first
PhaseAfterClose_m == "ctd"
PhaseAfterClose == "kcp"

\* self.browser_pool.clear(); close_all_browsers returns (line 156; with an
\* empty pool it returns at line 145)
CabDone ==
  /\ pc = "cab"
  /\ cl_idx > Len(browser_pool)
  /\ browser_pool' = << >>
  /\ pc' = PhaseAfterClose
  /\ cl_idx' = 1
  /\ UNCHANGED << params, stats_lock, apiv, stats, processed_suppliers, temp_dirs,
                  is_shutting_down, world, store, faults, create, ptask,
                  initv, roundv, exitv, signals, monitor_started, h >>

\* kill_chrome_processes (lines 158-180): every chrome process running with a
\* user-data-dir argument is sent kill(); NoSuchProcess and AccessDenied skip
\* the process, any other error ends the scan; nothing escapes
Kcp ==
  /\ pc = "kcp"
  /\ LET live == { i \in Browsers : session[i] = "live" }
     IN  \/ /\ session' = [i \in Browsers |->
                             IF i \in live THEN "killed" ELSE session[i]]
            /\ UNCHANGED faults
         \/ /\ Fault
            /\ \E K \in (SUBSET live) \ {live} :
                 session' = [i \in Browsers |->
                               IF i \in K THEN "killed" ELSE session[i]]
  /\ pc' = "ctd"
  /\ cl_idx' = 1
  /\ h' = [h EXCEPT !.kill_runs = @ + 1]
  /\ UNCHANGED << params, stats_lock, apiv, stats, fields, dir, store, create, ptask, initv,
                  roundv, exitv, signals, monitor_started >>

\* one iteration of the loop of cleanup_temp_dirs (lines 189-196):
\* shutil.rmtree(temp_dir, ignore_errors=True) removes the tree or gives up
\* silently
CtdRemove ==
  /\ pc = "ctd"
  /\ cl_idx <= Len(temp_dirs)
  /\ LET d == temp_dirs[cl_idx]
     IN  /\ h' = [h EXCEPT !.rm_tried = @ \cup {d}]
         /\ \/ /\ dir' = [dir EXCEPT ![d] = "removed"]
               /\ UNCHANGED faults
            \/ /\ Fault
               /\ UNCHANGED dir
  /\ cl_idx' = cl_idx + 1
  /\ UNCHANGED << params, stats_lock, apiv, stats, fields, session, store, pc, create, ptask,
                  initv, roundv, exitv, signals, monitor_started >>

\* the loop of cleanup_temp_dirs has given every entry of the list to rmtree;
\* a creation task can still append to the list before it is cleared
CtdLoopEnd ==
  /\ pc = "ctd"
  /\ temp_dirs # << >>
  /\ cl_idx > Len(temp_dirs)
  /\ pc' = "ctd_clear"
  /\ UNCHANGED << params, stats_lock, apiv, stats, fields, world, store, faults, create, ptask,
                  initv, roundv, cl_idx, exitv, signals, monitor_started, h >>

\* self.temp_dirs.clear() (line 198), or the return at line 185 when the
\* list was empty; cleanup_temp_dirs and cleanup_all return
CtdDone ==
  /\ \/ pc = "ctd_clear"
     \/ pc = "ctd" /\ temp_dirs = << >>
  /\ temp_dirs' = << >>
  /\ cl_idx' = 0
  /\ pc' = AfterCleanupPc(ca_caller, sig_pc)
  /\ exc_pending' = AfterCleanupExc(ca_caller)
  /\ ca_caller' = "none"
  /\ sig_pc' = "none"
  /\ h' = [h EXCEPT !.body_done = TRUE]
  /\ UNCHANGED << params, stats_lock, apiv, stats, processed_suppliers, browser_pool,
                  is_shutting_down, world, store, faults, create, ptask,
                  initv, roundv, signals, monitor_started >>

\* --------------------------------------------------------- signal_handler
\* SIGINT or SIGTERM (lines 106-107, 114-119): the handler runs in the main
\* thread, wherever that is (also while it waits in as_completed), calls
\* cleanup_all and then sys.exit(0).  Arriving while cleanup_all is running,
\* the handler's own cleanup_all returns at the guard and SystemExit unwinds
\* the running one.
Signal ==
  /\ signals < MaxSignals
  /\ pc \in WithPcs \cup TryPcs \cup CleanupPcs \cup {"finally", "print_stats"}
  /\ ca_caller # "atexit"
  /\ signals' = signals + 1
  /\ IF pc \in CleanupPcs
       THEN /\ AlreadyShuttingDown
            /\ pc' = IF ca_caller = "finally" THEN "atexit"
                     ELSE Unwind(sig_pc)
            /\ exc_pending' = "SystemExit"
            /\ ca_caller' = "none"
            /\ sig_pc' = "none"
            /\ cl_idx' = 0
            /\ h' = [h EXCEPT !.cleanup_calls = @ + 1, !.exit_path = "signal"]
            /\ UNCHANGED is_shutting_down
       ELSE CallCleanupAll("signal", pc)
  /\ UNCHANGED << params, stats_lock, apiv, stats, processed_suppliers, browser_pool, temp_dirs,
                  world, store, faults, create, ptask, initv, roundv,
                  monitor_started >>

\* the exit of a with block that an exception is leaving: shutdown(wait=True)
\* returns when every submitted task has finished; "except Exception" (line
\* 729) then catches an Exception, SystemExit goes on
ExitJoin ==
  /\ pc = "exit_join"
  /\ \A i \in Browsers : create[i] \notin {"started", "dir"}
  /\ \A k \in Slots : ptask[k].pc \in {"idle", "returned", "raised"}
  /\ pc' = "finally"
  /\ exc_pending' = IF exc_pending = "Exception" THEN "none" ELSE exc_pending
  /\ h' = [h EXCEPT !.exit_path = IF exc_pending = "Exception"
                                    THEN "exception" ELSE @]
  /\ UNCHANGED << params, stats_lock, apiv, stats, fields, world, store, faults, create, ptask,
                  initv, roundv, cl_idx, ca_caller, sig_pc, signals,
                  monitor_started >>

\* self.print_turbo_stats() of line 737
PrintStats ==
  /\ pc = "print_stats"
  /\ LockFree
  /\ pc' = "atexit"
  /\ h' = [h EXCEPT !.stats_reported = TRUE]
  /\ UNCHANGED << params, stats_lock, apiv, stats, fields, world, store, faults, create, ptask,
                  mainv >>

\* threading.Thread(target=self.stats_monitor, daemon=True) (line 696): the
\* interpreter does not wait for the monitor when it exits
DaemonMonitor_m == FALSE
DaemonMonitor == TRUE

\* atexit.register(self.cleanup_all) (line 110): the hook runs when the
\* interpreter exits, after it has waited for the threads that are not
\* daemons
AtExit ==
  /\ pc = "atexit"
  /\ DaemonMonitor \/ ~monitor_started
  /\ CallCleanupAll("atexit", "atexit")
  /\ UNCHANGED << params, stats_lock, apiv, stats, processed_suppliers, browser_pool, temp_dirs,
                  world, store, faults, create, ptask, initv, roundv, signals,
                  monitor_started >>

\* ---------------------------------------------------------- stats_monitor
\* the daemon thread enters print_turbo_stats after its sleep of 5 s and
\* takes the stats lock (lines 636, 741-745)
StatsMonitor ==
  /\ monitor_started
  /\ pc # "exited"
  /\ LockFree
  /\ stats_lock' = "monitor"
  /\ UNCHANGED << params, apiv, stats, fields, world, store, faults, pc, create,
                  ptask, mainv, h >>

\* the body of print_turbo_stats (lines 637-663) has read the counters and
\* printed them; it writes none of them, and the with block gives the lock
\* back, also when the body raises
StatsMonitorDone ==
  /\ stats_lock = "monitor"
  /\ pc # "exited"
  /\ stats_lock' = "free"
  /\ UNCHANGED << params, apiv, stats, fields, world, store, faults, pc, create,
                  ptask, mainv, h >>

\* ------------------------------------------- save_supplier with details
\* field names and values a detail page can show
Fields == {"A", "B"}
Values == {"1", "2"}
\* the dicts get_supplier_details can build (lines 512-522)
DetailMaps == UNION { [F -> Values] : F \in SUBSET Fields }
\* what a caller can pass as details: None, {} or a non-empty dict
DetailArgs == {NoDetails} \cup { [given |-> TRUE, map |-> D] : D \in DetailMaps }

\* "if details and supplier.get('supplier_id')" (line 573)
HasDetails_m(det, sid) == det.given /\ sid # ""
HasDetails(det, sid) == det.given /\ DOMAIN det.map # {} /\ sid # ""

\* DELETE FROM supplier_details WHERE supplier_id = ? (line 575)
DeleteDetails_m(table, sid) == table
DeleteDetails(table, sid) == { r \in table : r.supplier_id # sid }

\* the rows the INSERT loop writes for the fields F of dict D (lines 577-581);
\* field_value is str(value)
DetailRows(sid, D, F) ==
  { [supplier_id |-> sid, section |-> "basic", field_name |-> f,
     field_value |-> D[f]] : f \in F }

\* the view of the connection of save_supplier after its statements ran up
\* to a point: stage 0 nothing, 1 the INSERT OR REPLACE, 2 also the DELETE and
\* the INSERTs of the fields F
SaveTx(row, det, stage, F) ==
  [ suppliers |-> IF stage >= 1 THEN InsertOrReplace(suppliers, row)
                  ELSE suppliers,
    details   |-> IF stage >= 2 /\ HasDetails(det, row.supplier_id)
                    THEN DeleteDetails(supplier_details, row.supplier_id)
                         \cup DetailRows(row.supplier_id, det.map, F)
                    ELSE supplier_details ]

\* conn.commit() (line 587) is the only commit: an exception before it goes
\* to the except branch and conn.close() drops what the statements did
Committed_m(before, tx, ok) == tx
Committed(before, tx, ok) == IF ok THEN tx ELSE before

\* a direct call save_supplier(supplier, details) (lines 551-592)
ApiSaveSupplier ==
  /\ now < MaxCalls
  /\ now' = now + 1
  /\ \E sid \in Ids, pn \in { ParticipantNumber(x) : x \in Ids },
        det \in DetailArgs :
       LET row    == SupplierRow(pn, sid, det, now + 1)
           before == [suppliers |-> suppliers, details |-> supplier_details]
           call   == [NoCall EXCEPT !.op = "save", !.sid = sid, !.pn = pn,
                                    !.details = det,
                                    !.again = \E r \in suppliers :
                                                /\ r.supplier_id = sid
                                                /\ r.participant_number = pn,
                                    !.had = { r.field_name :
                                                r \in { x \in supplier_details :
                                                    x.supplier_id = sid } }]
           Result(tx, ok) ==
             /\ suppliers' = Committed(before, tx, ok).suppliers
             /\ supplier_details' = Committed(before, tx, ok).details
             /\ h' = IF ok /\ HasDetails(det, sid)
                       THEN [h EXCEPT !.last_details[sid] = det.map]
                       ELSE h
       IN  \/ /\ Result(SaveTx(row, det, 2, DOMAIN det.map), TRUE)
              /\ api_ret' = call
              /\ UNCHANGED faults
           \/ /\ Fault
              /\ \E stage \in 0 .. 2, F \in SUBSET (DOMAIN det.map) :
                   Result(SaveTx(row, det, stage, F), FALSE)
              /\ api_ret' = [call EXCEPT !.failed = TRUE]
           \/ /\ Fault
              /\ UNCHANGED << suppliers, supplier_details, h >>
              /\ api_ret' = [call EXCEPT !.failed = TRUE, !.raised = TRUE]
  /\ UNCHANGED << params, stats_lock, failed_suppliers, stats, fields, world,
                  failed_attempts, pc, create, ptask, mainv >>

\* a direct call log_failed_attempt(page, supplier_id, error) (lines
\* 534-549): the row is written; or the INSERT or the commit fails, which is
\* caught; or sqlite3.connect fails, which is outside the try block
ApiLogFailedAttempt ==
  /\ now < MaxCalls
  /\ now' = now + 1
  /\ \E a \in AttemptKeys :
       LET call == [NoCall EXCEPT !.op = "log", !.page = a[1], !.sid = a[2]]
       IN  \/ /\ failed_attempts' = LogInsert(failed_attempts, a[1], a[2])
              /\ api_ret' = call
              /\ UNCHANGED faults
           \/ /\ Fault
              /\ api_ret' = [call EXCEPT !.failed = TRUE]
              /\ UNCHANGED failed_attempts
           \/ /\ Fault
              /\ api_ret' = [call EXCEPT !.failed = TRUE, !.raised = TRUE]
              /\ UNCHANGED failed_attempts
  /\ UNCHANGED << params, stats_lock, supplier_details, failed_suppliers, stats, fields,
                  world, suppliers, pc, create, ptask, mainv, h >>

\* what browser.get and the wait of get_supplier_details can meet (lines
\* 504-515): the striped main table; some element of class "table" but no
\* main table; no element of class "table" (the wait times out after 15 s);
\* a navigation error
DetailPages == {"main_table", "other_table", "no_table", "error"}

\* a direct call get_supplier_details(browser, supplier_id) (lines 498-532)
ApiGetSupplierDetails ==
  /\ now < MaxCalls
  /\ now' = now + 1
  /\ \E b \in Range(browser_pool), sid \in Ids, kind \in DetailPages :
       LET call == [NoCall EXCEPT !.op = "get", !.sid = sid, !.kind = kind]
       IN  IF session[b] = "live" /\ kind \in {"main_table", "other_table"}
             THEN /\ \E D \in IF kind = "main_table" THEN DetailMaps
                              ELSE { << >> } :
                       api_ret' = [call EXCEPT !.value = D]
                  /\ UNCHANGED << failed_suppliers, failed_attempts, faults >>
             ELSE /\ LockFree
                  /\ failed_suppliers' = failed_suppliers \cup {sid}
                  /\ \/ /\ failed_attempts' = LogInsert(failed_attempts, 0, sid)
                        /\ api_ret' = [call EXCEPT !.failed = TRUE]
                        /\ UNCHANGED faults
                     \/ /\ Fault
                        /\ api_ret' = [call EXCEPT !.failed = TRUE]
                        /\ UNCHANGED failed_attempts
                     \/ /\ Fault
                        /\ api_ret' = [call EXCEPT !.failed = TRUE,
                                                   !.raised = TRUE]
                        /\ UNCHANGED failed_attempts
  /\ UNCHANGED << params, stats_lock, supplier_details, stats, fields, world, suppliers,
                  pc, create, ptask, mainv, h >>

\* ------------------------------------------------------------------ Next
\* every step of the main thread, the creation tasks and the page tasks but
\* the delivery of a signal
Work ==
  \/ \E i \in Browsers : CreateDir(i)
  \/ \E i \in Browsers : CreateChrome(i)
  \/ IbpBatch
  \/ \E i \in Browsers : IbpCollect(i)
  \/ IbpBatchEnd
  \/ IbpSleep
  \/ IbpReturn
  \/ RtpCheck
  \/ RtpWhile
  \/ PrSubmit
  \/ PrSubmitRaise
  \/ \E k \in Slots : PrCollect(k)
  \/ PrSave
  \/ PrCount
  \/ PrRoundEnd
  \/ RtpSleep
  \/ \E k \in Slots : TaskGet(k)
  \/ \E k \in Slots : TaskRow(k)
  \/ \E k \in Slots : TaskAdd(k)
  \/ \E k \in Slots : TaskDup(k)
  \/ \E k \in Slots : TaskFail(k)
  \/ \E k \in Slots : TaskLog(k)
  \/ Finally
  \/ CabQuit
  \/ CabDone
  \/ Kcp
  \/ CtdRemove
  \/ CtdLoopEnd
  \/ CtdDone
  \/ ExitJoin
  \/ PrintStats
  \/ AtExit

\* every step but the delivery of a signal
Steps ==
  \/ Work
  \/ StatsMonitor
  \/ StatsMonitorDone

Next ==
  \/ Steps
  \/ Signal

Spec == Init /\ [][Next]_vars

\* a run that no signal reaches.  The main thread, the creation tasks and
\* the page tasks get to take the steps they can take: none of them waits on
\* anything but another thread of the run, the waits of the page tasks are
\* bounded (15 s), and a thread that waits for the stats lock gets it, as the
\* monitor sleeps 5 s between two prints (strong fairness).  A
\* print_turbo_stats of the monitor comes to its end; whether the monitor
\* prints again is left open.
DrainSpec ==
  Init /\ [][Steps]_vars /\ SF_vars(Work) /\ WF_vars(StatsMonitorDone)

\* ----------------------------------------------------------- direct calls
\* The store and detail methods called one after another by a single caller
\* on a parser whose pool holds one live session: save_supplier with and
\* without details, log_failed_attempt and get_supplier_details (which
\* run_turbo_parsing never calls).
ApiInit ==
  /\ total_browsers = 1 /\ start_page = 1 /\ end_page = MaxPages
  /\ processed_pages = 0 /\ found_suppliers = 0 /\ duplicates_found = 0
  /\ failed_pages = {} /\ failed_suppliers = {} /\ processed_suppliers = {}
  /\ browser_pool = << 0 >> /\ temp_dirs = << 0 >>
  /\ is_shutting_down = FALSE
  /\ session = [i \in Browsers |-> IF i = 0 THEN "live" ELSE "none"]
  /\ dir = [i \in Browsers |-> IF i = 0 THEN "exists" ELSE "none"]
  /\ suppliers = {} /\ supplier_details = {}
  /\ failed_attempts = [a \in AttemptKeys |-> 0]
  /\ api_ret = NoCall
  /\ now = 0 /\ faults = 0
  /\ pc = "api"
  /\ stats_lock = "free"
  /\ create = [i \in Browsers |-> IF i = 0 THEN "ret_driver" ELSE "idle"]
  /\ ptask = [k \in Slots |-> IdleTask]
  /\ batch_num = 1 /\ collected = {}
  /\ current_page_index = 0 /\ pages_for_round = << >> /\ round_number = 1
  /\ submitted = {} /\ cur_suppliers = << >> /\ save_idx = 0 /\ cl_idx = 0
  /\ ca_caller = "none" /\ sig_pc = "none" /\ exc_pending = "none"
  /\ signals = 0 /\ monitor_started = FALSE
  /\ h = [InitHistory EXCEPT !.attempts[0] = 1, !.pooled = {0},
                             !.init_pool = 1]

ApiNext ==
  \/ ApiSaveSupplier
  \/ ApiLogFailedAttempt
  \/ ApiGetSupplierDetails

ApiSpec == ApiInit /\ [][ApiNext]_vars

\* ====================================================================
\* Properties
\* ====================================================================
\* main-thread positions of a round whose submit loop has finished
RoundPcs == {"pr_collect", "pr_save", "pr_count"}

\* pages not yet cut from all_pages when the running round was cut
RemainingBefore ==
  Len(all_pages) - current_page_index + Len(pages_for_round)

\* C1: a supplier_id is accepted (appended to a page task's result list) by
\* at most one page task of the run, in every interleaving.
C1_AtomicCheckAndInsert ==
  \A s \in Ids : h.accepts[s] <= 1

\* C2: the suppliers table holds at most one row per supplier_id, and no
\* second save is issued for an identifier that was already accepted.
C2_OneRowOneSave ==
  /\ \A r1, r2 \in suppliers : r1.supplier_id = r2.supplier_id => r1 = r2
  /\ \A s \in Ids : h.saves[s] <= 1

\* C3: once the submit loop of a round has finished, the number of page
\* tasks dispatched in the round is min(remaining pages, live sessions); it
\* never exceeds the number of live sessions.
C3_RoundSizing ==
  /\ pc \in RoundPcs =>
       Cardinality(submitted) = Min(RemainingBefore, Len(browser_pool))
  /\ pc \in RoundPcs \cup {"pr_submit"} =>
       Cardinality(submitted) <= Len(browser_pool)

\* C3 witness: the pool target was 2, one session was created, pages remain
\* for more than one round, and the round dispatched one page
C3_Witness ==
  /\ pc = "pr_collect"
  /\ total_browsers = 2 /\ Len(browser_pool) = 1
  /\ RemainingBefore >= 2
  /\ Cardinality(submitted) = 1

\* C4: a page task that fails has recorded its page in failed_pages before
\* it logs, and no exception of a page task reaches the round collector.
\* (The row in failed_attempts is left out: log_failed_attempt swallows a
\* failed INSERT by design.)
C4_TaskFailureContained ==
  \A k \in Slots :
    /\ ptask[k].pc # "raised"
    /\ ptask[k].pc = "log" => ptask[k].page \in failed_pages

\* C5: a call of cleanup_all made after a call that ran to its end changes
\* neither the pool, the scratch-directory list, the sessions, the
\* directories nor the flag, runs no part of the teardown body again and
\* raises nothing; the first call ends with the pool and the list empty.
C5_SecondCallStep ==
  h.body_done /\ h'.cleanup_calls = h.cleanup_calls + 1

C5_CleanupIdempotent ==
  [][ /\ (~h.body_done /\ h'.body_done) =>
            browser_pool' = << >> /\ temp_dirs' = << >>
      /\ C5_SecondCallStep =>
            /\ UNCHANGED << browser_pool, temp_dirs, session, dir,
                            is_shutting_down >>
            /\ h'.body_runs = h.body_runs
            /\ h'.kill_runs = h.kill_runs
            /\ h'.quits = h.quits
            /\ h'.rm_tried = h.rm_tried
            /\ pc' \notin CleanupPcs
            /\ (pc \in {"finally", "atexit"} => exc_pending' = exc_pending)
    ]_vars

\* C5 witness: the finally block's call ran to its end, the atexit hook
\* called again, and the process has ended
C5_Witness ==
  /\ pc = "exited" /\ signals = 0
  /\ h.body_done /\ h.cleanup_calls = 2 /\ h.body_runs = 1
  /\ h.init_pool = 2

\* C6: when the process has ended without any failure of the environment,
\* no session started by this run is alive and no scratch directory made by
\* create_stealth_browser exists.
C6_NothingSurvives ==
  (pc = "exited" /\ faults = 0) =>
    \A i \in Browsers : session[i] # "live" /\ dir[i] # "exists"

C8_CleanupNeverRaises ==
  /\ h.body_done =>
       /\ browser_pool = << >>
       /\ h.kill_runs >= 1
       /\ \A i \in h.pooled : h.quits[i] >= 1
       /\ \A i \in h.pooled : i \in h.rm_tried
       /\ \A i \in Range(temp_dirs) : i \notin h.rm_tried
       /\ signals = 0 => exc_pending \in {"none", "Return"}
  /\ pc \in {"ctd", "ctd_clear"} => h.kill_runs >= 1 /\ \A i \in h.pooled : h.quits[i] >= 1

\* C8 witness: the pool held two sessions, quit() failed on one of them
\* (it was alive after quit and was killed), and the teardown ran to its end
C8_Witness ==
  /\ h.body_done
  /\ Cardinality(h.pooled) = 2
  /\ \E i \in h.pooled : h.quits[i] = 1 /\ session[i] = "killed"
  /\ \E i \in h.pooled : session[i] = "quit"

\* C9: when init_browser_pool returns, create_stealth_browser has been
\* called exactly once for each index 0..total_browsers-1 and for no other,
\* and the pool holds exactly the sessions whose creation returned a driver,
\* each once, so len(browser_pool) <= total_browsers.
C9_PoolInit ==
  /\ \A i \in Browsers : h.attempts[i] <= 1
  /\ pc = "rtp_check" =>
       /\ \A i \in Browsers : h.attempts[i] = IF i < total_browsers THEN 1
                                              ELSE 0
       /\ Range(browser_pool) = { i \in Browsers : create[i] = "ret_driver" }
       /\ Cardinality(Range(browser_pool)) = Len(browser_pool)
       /\ Len(browser_pool) <= total_browsers

\* C9 witness: two sessions were asked for, one creation failed, and
\* initialization returned with a pool of one
C9_Witness ==
  /\ pc = "rtp_check"
  /\ total_browsers = 2 /\ Len(browser_pool) = 1
  /\ \E i \in Browsers : create[i] = "ret_none"

\* C10: when init_browser_pool returned with an empty pool, no page task is
\* ever dispatched, processed_pages stays 0, the scheduling loop and the
\* stats monitor are never started, and cleanup_all has run its body when
\* run_turbo_parsing is left.
C10_PoolExhaustion ==
  h.init_pool = 0 =>
    /\ \A p \in Pages : h.dispatched[p] = 0
    /\ \A k \in Slots : ptask[k].pc = "idle"
    /\ processed_pages = 0
    /\ ~monitor_started
    /\ pc \notin RoundPcs \cup {"rtp_while", "pr_submit", "rtp_sleep"}
    /\ pc \in {"atexit", "exited"} => h.body_runs = 1

\* C10 witness: every creation failed, the run returned before the loop,
\* the teardown ran to its end and the process ended
C10_Witness ==
  /\ pc = "exited" /\ h.init_pool = 0
  /\ h.body_done /\ signals = 0
  /\ end_page >= 1

\* the rows of supplier_details that belong to sid
DetailsOf(sid) == { r \in supplier_details : r.supplier_id = sid }

\* C11: after a committed save_supplier whose payload equals a row that was
\* already stored, the table holds exactly one row for that supplier_id: the
\* payload, with the timestamp of this save.
C11_UpsertIdempotent ==
  (api_ret.op = "save" /\ api_ret.again /\ ~api_ret.failed) =>
    { r \in suppliers : r.supplier_id = api_ret.sid } =
      { SupplierRow(api_ret.pn, api_ret.sid, api_ret.details, now) }

\* C11 witness: the same payload has been saved a second time, and the row
\* carries the time of the second save
C11_Witness ==
  /\ api_ret.op = "save" /\ api_ret.again /\ ~api_ret.failed
  /\ now = 2
  /\ \E r \in suppliers : r.supplier_id = api_ret.sid /\ r.updated_at = 2

\* C12: the detail rows stored for a supplier_id are always exactly the
\* entries of the dict of the last committed save_supplier that had a
\* non-empty dict for it (none before the first): a later dict replaces the
\* rows as a set, and a save that fails part-way leaves them as they were.
C12_DetailReplace ==
  /\ \A sid \in Ids :
       DetailsOf(sid) = DetailRows(sid, h.last_details[sid],
                                   DOMAIN h.last_details[sid])
  /\ (/\ api_ret.op = "save" /\ ~api_ret.failed
      /\ HasDetails(api_ret.details, api_ret.sid)) =>
       DetailsOf(api_ret.sid) = DetailRows(api_ret.sid, api_ret.details.map,
                                           DOMAIN api_ret.details.map)

\* C12 witness: rows for fields A and B were stored, a save with a dict
\* holding only B was committed, and only the B row is left
C12_Witness ==
  /\ api_ret.op = "save" /\ ~api_ret.failed
  /\ api_ret.had = {"A", "B"}
  /\ DOMAIN api_ret.details.map = {"B"}
  /\ { r.field_name : r \in DetailsOf(api_ret.sid) } = {"B"}

\* C13: a call of log_failed_attempt never raises to its caller, whatever
\* fails in the storage.
C13_LogNeverRaises ==
  api_ret.op = "log" => ~api_ret.raised

\* C14: get_supplier_details never raises; when it fails the identifier is
\* in failed_suppliers and the empty dict is returned; when the page has no
\* main table but the wait succeeded it returns the empty dict and records
\* no failure.
C14_DetailFailureContained ==
  api_ret.op = "get" =>
    /\ ~api_ret.raised
    /\ api_ret.failed =>
         api_ret.sid \in failed_suppliers /\ api_ret.value = << >>
    /\ api_ret.kind = "other_table" =>
         ~api_ret.failed /\ api_ret.value = << >>

\* the pages of the range that have been dispatched
DispatchedPages == { p \in Pages : h.dispatched[p] > 0 }

\* main-thread positions of the scheduling loop and its rounds
SchedulingPcs == RoundPcs \cup {"rtp_while", "rtp_sleep", "pr_submit"}

\* C15 as stated: a run that is not cancelled has dispatched every page of
\* the range exactly once when it ends.
C15_EveryPageOnce ==
  (pc = "exited" /\ signals = 0) =>
    \A p \in start_page .. end_page : h.dispatched[p] = 1

\* C15 amended: no page is dispatched twice and none outside the range; the
\* dispatched pages are at every moment an initial stretch of the range, so
\* pages go out in ascending order without a gap, failures included; a run
\* whose pool got a session and whose loop ran to its end without a signal or
\* an exception has dispatched every page of the range exactly once.
C15_PageOrder ==
  /\ \A p \in Pages : h.dispatched[p] <= 1
  /\ \E m \in 0 .. end_page : DispatchedPages = start_page .. m
  /\ \A k \in Slots :
       pc \in RoundPcs /\ k \in 2 .. Len(pages_for_round) =>
         pages_for_round[k] = pages_for_round[k - 1] + 1
  /\ h.exit_path = "normal" => DispatchedPages = start_page .. end_page

\* C15 witness: a pool of two sessions ran three pages in two rounds to the
\* end, one page failed, and every page went out once
C15_Witness ==
  /\ pc = "exited" /\ h.exit_path = "normal"
  /\ h.init_pool = 2 /\ end_page = 3
  /\ failed_pages # {}
  /\ \A p \in Pages : h.dispatched[p] = 1

\* C16: every page task that has not been collected belongs to the round
\* that is running, and between two rounds (at the loop test and during the
\* cooldown) no page task is unresolved.
C16_RoundBarrier ==
  /\ pc \in {"rtp_while", "rtp_sleep"} =>
       \A k \in Slots : ptask[k].pc = "idle"
  /\ \A k \in Slots :
       ptask[k].pc # "idle" =>
         /\ k \in submitted \ collected
         /\ k <= Len(pages_for_round)
         /\ ptask[k].page = pages_for_round[k]

\* C16 witness: the second round is about to dispatch, the first one had
\* two tasks of which one failed, and nothing of it is still running
C16_Witness ==
  /\ pc = "pr_submit" /\ round_number = 2 /\ submitted = {}
  /\ Cardinality(DispatchedPages) = 2
  /\ failed_pages # {} /\ processed_pages >= 1
  /\ \A k \in Slots : ptask[k].pc = "idle"

\* C17: the page task in slot k works on page k of the round's batch with
\* session k of the pool, and two page tasks that exist at the same time
\* never have the same session or the same page.
C17_OnePagePerSession ==
  /\ \A k \in Slots :
       (ptask[k].pc # "idle" /\ k <= Len(browser_pool)) =>
         /\ ptask[k].browser = browser_pool[k]
         /\ ptask[k].page = pages_for_round[k]
  /\ \A k1, k2 \in Slots :
       (k1 # k2 /\ ptask[k1].pc # "idle" /\ ptask[k2].pc # "idle") =>
         /\ ptask[k1].browser # ptask[k2].browser
         /\ ptask[k1].page # ptask[k2].page

\* C17 witness: two page tasks are at work at the same time, each on its
\* own session of the pool and on its own page of the batch
C17_Witness ==
  /\ Len(browser_pool) = 2 /\ Len(pages_for_round) = 2
  /\ ptask[1].pc = "rows" /\ ptask[2].pc = "rows"
  /\ ptask[1].browser = browser_pool[1] /\ ptask[2].browser = browser_pool[2]
  /\ ptask[1].page = pages_for_round[1] /\ ptask[2].page = pages_for_round[2]

\* C18: kill_chrome_processes runs only after quit() was called on every
\* session of the pool, a failed quit included; a scratch directory is given
\* to rmtree, and removed, only after that and after kill_chrome_processes
\* has run.
C18_TeardownOrder ==
  LET all_quit == \A i \in h.pooled : h.quits[i] >= 1
  IN  /\ (pc = "kcp" \/ h.kill_runs >= 1) => all_quit
      /\ (pc \in {"ctd", "ctd_clear"} \/ h.rm_tried # {}) =>
           all_quit /\ h.kill_runs >= 1
      /\ \A i \in Browsers :
           dir[i] = "removed" => all_quit /\ h.kill_runs >= 1

\* C18 witness: a quit failed, the other session was quit, the kill phase
\* ended the first, and both directories have then been removed
C18_Witness ==
  /\ pc = "ctd_clear"
  /\ Cardinality(h.pooled) = 2 /\ faults = 1
  /\ \E i \in h.pooled : session[i] = "killed" /\ h.quits[i] = 1
  /\ \A i \in h.pooled : dir[i] = "removed"

\* C19: the teardown body runs at most once, no session is quit twice, and
\* when the process has ended without any failure of the environment every
\* session that was started has been quit exactly once.
C19_TeardownOnce ==
  /\ h.body_runs <= 1
  /\ \A i \in Browsers : h.quits[i] <= 1
  /\ (pc = "exited" /\ faults = 0) =>
       \A i \in Browsers : session[i] # "none" => h.quits[i] = 1

InFlight == { i \in Browsers : create[i] \in {"started", "dir"} }

\* C21: no page task is about to use a session that has been quit or
\* killed, and the teardown runs only when every page task has resolved.
C21_CooperativeCancel ==
  /\ \A k \in Slots :
       ptask[k].pc = "get" => session[ptask[k].browser] = "live"
  /\ pc \in CleanupPcs =>
       \A k \in Slots : ptask[k].pc \in {"idle", "returned", "raised"}

\* rounds that have been completed
RoundsDone == round_number - 1

CeilDiv(n, d) == (n + d - 1) \div d

\* C22 as stated: a run without a signal whose pool got L >= 1 sessions
\* has ended drained after exactly ceil(N / L) rounds.
C22_DrainedAfterRounds ==
  (pc = "exited" /\ h.init_pool >= 1) =>
    /\ h.exit_path = "normal"
    /\ RoundsDone = CeilDiv(Len(all_pages), h.init_pool)

\* C22 amended: a run without a signal always ends, and the teardown has
\* then run to its end; with L >= 1 sessions it ends drained unless an
\* exception left a round, and a drained run has made exactly ceil(N / L)
\* rounds: none when start > end.
C22_Termination ==
  /\ <>(pc = "exited")
  /\ [](pc = "exited" => h.body_done)
  /\ [](h.exit_path = "normal" =>
          /\ h.init_pool >= 1
          /\ RoundsDone = CeilDiv(Len(all_pages), h.init_pool)
          /\ (end_page < start_page => RoundsDone = 0))
  /\ []((pc = "exited" /\ h.init_pool >= 1) =>
          h.exit_path \in {"normal", "exception"})

\* C22 witness: three pages on two sessions, drained after two rounds, and
\* the process has ended after the teardown
C22_Witness ==
  /\ pc = "exited" /\ h.exit_path = "normal" /\ h.body_done
  /\ h.init_pool = 2 /\ end_page = 3
  /\ RoundsDone = 2

\* C23: the main thread sleeps its cooldown only while pages remain and the
\* run is not shutting down; every completed round that left pages was
\* followed by one cooldown, and the last round by none.
C23_Cooldown ==
  /\ pc = "rtp_sleep" =>
       current_page_index < Len(all_pages) /\ ~is_shutting_down
  /\ pc \in RoundPcs \cup {"pr_submit"} => h.cooldowns = RoundsDone
  /\ pc = "rtp_sleep" => h.cooldowns = RoundsDone - 1
  /\ pc = "rtp_while" =>
       h.cooldowns = IF current_page_index < Len(all_pages) THEN RoundsDone
                     ELSE IF RoundsDone = 0 THEN 0 ELSE RoundsDone - 1
  /\ h.exit_path = "normal" =>
       h.cooldowns = IF RoundsDone = 0 THEN 0 ELSE RoundsDone - 1
  /\ h.cooldowns <= RoundsDone

\* C23 witness: a drained run of two rounds has slept one cooldown
C23_Witness ==
  /\ pc = "exited" /\ h.exit_path = "normal"
  /\ RoundsDone = 2 /\ h.cooldowns = 1

\* C24: at most batch_size creation tasks are in flight, all of the batch
\* that is being created; between two batches none is in flight; one sleep
\* has been made for every batch but the last.
C24_Batches ==
  /\ Cardinality(InFlight) <= batch_size
  /\ InFlight \subseteq BatchIds(batch_num)
  /\ pc \in {"ibp_for", "ibp_sleep"} => InFlight = {}
  /\ pc = "ibp_sleep" => batch_num < total_batches /\ h.init_sleeps = batch_num - 1
  /\ pc = "ibp_collect" => h.init_sleeps = batch_num
  /\ pc = "ibp_for" => h.init_sleeps = Min(batch_num, total_batches - 1)
  /\ h.init_sleeps <= total_batches - 1

\* C24 witness: the second batch is being created after one sleep, and the
\* creation of the first batch has returned
C24_Witness ==
  /\ pc = "ibp_collect" /\ batch_num = 1
  /\ h.init_sleeps = 1
  /\ InFlight = BatchIds(1)
  /\ \A i \in BatchIds(0) : create[i] \in {"ret_driver", "ret_none"}

\* C25: between two rounds of a run without any failure of the environment,
\* save_supplier has been called for every identifier of the seen-set and
\* found_suppliers is not below the size of the seen-set.
C25_AcceptedAreSaved ==
  (pc \in {"rtp_while", "rtp_sleep"} /\ faults = 0) =>
    /\ \A s \in processed_suppliers : h.saves[s] >= 1
    /\ found_suppliers >= Cardinality(processed_suppliers)

\* C26: a direct call of save_supplier never raises to its caller.
C26_SaveNeverRaises ==
  api_ret.op = "save" => ~api_ret.raised

\* C27: a call of save_supplier changes no detail row of another
\* supplier_id, and none at all when it is given no dict or an empty one.
C27_DetailFrame ==
  [][ (api_ret'.op = "save" /\ now' # now) =>
        /\ \A s \in Ids \ {api_ret'.sid} :
             { r \in supplier_details' : r.supplier_id = s } = DetailsOf(s)
        /\ (~api_ret'.details.given \/ DOMAIN api_ret'.details.map = {}) =>
             supplier_details' = supplier_details
    ]_vars

\* C27 witness: detail rows were stored for an identifier, a save with an
\* empty dict was committed for it, and the rows are still there
C27_Witness ==
  /\ api_ret.op = "save" /\ ~api_ret.failed
  /\ api_ret.details.given /\ DOMAIN api_ret.details.map = {}
  /\ api_ret.had = {"A", "B"}
  /\ { r.field_name : r \in DetailsOf(api_ret.sid) } = {"A", "B"}

\* C28: at most one page task is between the membership test of the
\* deduplication set and its insert.
C28_OneWriterAtATime ==
  Cardinality({ k \in Slots : ptask[k].pc = "add" }) <= 1

\* C29: no step removes an identifier from the deduplication set, so every
\* identifier that was ever accepted is in it, and it holds nothing else.
C29_SeenSetGrows ==
  /\ [][processed_suppliers \subseteq processed_suppliers']_vars
  /\ [](\A s \in Ids : h.accepts[s] >= 1 <=> s \in processed_suppliers)
  /\ [](processed_suppliers \subseteq Ids)

\* C29 witness: both identifiers were accepted, a page failed, the teardown
\* ran, and the set still holds both
C29_Witness ==
  /\ pc = "exited" /\ h.body_done
  /\ failed_pages # {}
  /\ processed_suppliers = Ids

\* the step of page task k over a row that leads to neither branch
PassesRow(k) ==
  /\ ptask[k].pc = "rows" /\ ptask'[k].pc = "rows"
  /\ ptask'[k].nrows = ptask[k].nrows + 1

\* C30: a row without an identifier never reaches the accept or the
\* duplicate branch, is in no result list and not in the deduplication set;
\* the step over it changes neither the result list nor failed_pages,
\* duplicates_found, found_suppliers, the deduplication set or the
\* failed-attempt log.
C30_RowWithoutId ==
  /\ [](/\ NoId \notin processed_suppliers
        /\ NoId \notin Range(cur_suppliers)
        /\ \A k \in Slots :
             /\ NoId \notin Range(ptask[k].suppliers)
             /\ ptask[k].pc \in {"add", "dup"} => ptask[k].cur \in Ids)
  /\ [][\A k \in Slots : PassesRow(k) =>
          /\ ptask'[k].cur = NoId
          /\ ptask'[k].suppliers = ptask[k].suppliers
          /\ processed_suppliers' = processed_suppliers
          /\ failed_pages' = failed_pages
          /\ duplicates_found' = duplicates_found
          /\ found_suppliers' = found_suppliers
          /\ failed_attempts' = failed_attempts]_vars

\* C30 witness: a page task has passed two rows without an identifier and
\* nothing but its row count has changed
C30_Witness ==
  /\ \E k \in Slots :
       /\ ptask[k].pc = "rows" /\ ptask[k].nrows = 2
       /\ ptask[k].suppliers = << >>
  /\ processed_suppliers = {} /\ duplicates_found = 0
  /\ failed_pages = {} /\ found_suppliers = 0
  /\ \A a \in AttemptKeys : failed_attempts[a] = 0

\* everything but the stats lock
allButLock == << params, apiv, stats, fields, world, store, faults, pc,
                 create, ptask, mainv, h >>

\* C31: a step of the stats monitor changes nothing but the holder of the
\* stats lock, which no other thread holds from one step to the next; the
\* round collector that waits for the lock gets it; and a run in which the
\* monitor goes on printing still ends.
C31_MonitorHarmless ==
  /\ [][stats_lock' # stats_lock => UNCHANGED allButLock]_vars
  /\ [](stats_lock = "monitor" => monitor_started)
  /\ (pc = "pr_count") ~> (pc # "pr_count")
  /\ <>(pc = "exited")

\* C31 witness: the monitor is inside print_turbo_stats while the round
\* collector waits for the lock to count a page and a page task waits for it
\* to count a duplicate
C31_Witness ==
  /\ monitor_started /\ stats_lock = "monitor"
  /\ pc = "pr_count"
  /\ \E k \in Slots : ptask[k].pc = "dup"

\* C32: when the process ends, quit() has been called on every session
\* that was in the pool and the scratch directory of every such session has
\* been given to rmtree.
C32_TeardownNotCutShort ==
  pc = "exited" =>
    \A i \in h.pooled : h.quits[i] >= 1 /\ i \in h.rm_tried

\* C33: between two rounds every page dispatched so far has been counted
\* in processed_pages, the pages in failed_pages included.
C33_EveryResolvedPageCounted ==
  pc \in {"rtp_while", "rtp_sleep"} =>
    processed_pages = Cardinality(DispatchedPages)

C35_SupplierRowFrame ==
  [][ api_ret'.op = "save" =>
        \A r \in suppliers :
          r.supplier_id # api_ret'.sid => r \in suppliers' ]_vars

\* C36: from the return of init_browser_pool to the start of the teardown
\* no step changes the pool, which keeps the size it had; every round gives
\* a page to every slot up to the size of its cut, whatever failed before,
\* and slot k works with session k of the pool.
C36_PoolFixed ==
  /\ [][(h.init_pool >= 0 /\ ~is_shutting_down') =>
          browser_pool' = browser_pool]_vars
  /\ []((h.init_pool >= 0 /\ ~is_shutting_down) =>
          Len(browser_pool) = h.init_pool)
  /\ []((pc \in RoundPcs /\ ~is_shutting_down) =>
          /\ submitted = 1 .. Min(Len(pages_for_round), h.init_pool)
          /\ \A k \in submitted :
               ptask[k].pc # "idle" => ptask[k].browser = browser_pool[k])

\* C36 witness: the page of slot 2 failed in the first round, and in the
\* second round slot 1 and its session are at work again after the page of
\* slot 1 had failed too
C36_Witness ==
  /\ ~is_shutting_down /\ Len(browser_pool) = 2
  /\ failed_pages = {1, 2}
  /\ round_number = 2 /\ pc = "pr_collect"
  /\ ptask[1].pc = "get" /\ ptask[1].page = 3
  /\ ptask[1].browser = browser_pool[1]
====
